---- MODULE Spec2Model ----
(***************************************************************************)
(* A model of the lab evaluation pipeline of tutor_tui                     *)
(* (src/src/tutor_tui/labs/evaluator.py), of the courses directory and the *)
(* student's state (core/persistence.py, core/state.py), of the importer   *)
(* (export_import/manager.py) and of the commands of the application that  *)
(* use them (tui/app.py).                                                  *)
(*                                                                         *)
(* Scores are held in tenths of a point (score 700 is 70.0), because the   *)
(* rubric rounds to one decimal.  Every message is a record                *)
(* [text, ref]: the text of the f-string and the value formatted into it.  *)
(***************************************************************************)
EXTENDS Integers, Sequences, FiniteSets, TLC

VARIABLES
    lab,          \* the Lab descriptor: which of its paths are set
    submission,   \* names of the files in the lab's submission directory
    tests,        \* names of the files in the lab's tests directory
    grade_file,   \* content of the grade artifact, grade.json
    ret,          \* the call that has just returned, and what it returned
    evals,        \* the evaluations that run step by step: position and data
    workdirs,     \* the temporary workspaces that exist, by their evaluation
    sys_path,     \* the entries the evaluations have put in front of sys.path
    grades,       \* the grade.json of each lab the stepwise evaluations grade
    writers,      \* for each mutable object, the evaluations that wrote it
    courses,      \* the courses directory: what is at each course path
    last_op,      \* for each slug, the last of create_course / delete_course
    reply,        \* the call of the persistence, the importer or the
                  \* application that has just returned, and what it returned
    app           \* TutorApp: current_course, current_state, current_unit

\* The state of the evaluator and of the labs it grades.
evalVars == <<lab, submission, tests, grade_file, ret,
              evals, workdirs, sys_path, grades, writers>>

\* The state of the courses directory and of the application.
courseVars == <<courses, last_op, reply, app>>

vars == <<lab, submission, tests, grade_file, ret,
          evals, workdirs, sys_path, grades, writers,
          courses, last_op, reply, app>>

----------------------------------------------------------------------------
(* Bounds of the model.                                                    *)

\* Most tests a structured (JSON) report lists.
MaxReportTests == 2
\* The tests of a long structured report, all of them failed.
LongReportTests == 11
\* The tests of a suite that all pass, "6 passed".
ScenarioTests == 6
\* Largest small count in a textual summary or a unittest result.
MaxCount == 1
\* A large suite, "117 passed, 88 failed": 117/205 * 70 + 30 = 69.95...
BigPassed == 117
BigFailed == 88
\* Largest 'passed' / 'total' a JavaScript test script reports.
MaxJsCount == 2
\* Largest elapsed wall time, in ticks.
MaxElapsed == 1
\* Largest number of units of a course.
MaxUnits == 2

----------------------------------------------------------------------------
(* Program constants.                                                      *)

\* Evaluator.__init__(lab, timeout=30)
Timeout == 30
\* GradeResult.max_score default, 100.0, in tenths
MaxScore == 1000
\* passed = score >= 70.0, in tenths
PassMark == 700
\* errors[:10] in _parse_pytest_output
ErrorCap == 10
\* errors[:5] in JavaScriptEvaluator.evaluate
JsErrorCap == 5
\* _apply_rubric: 70% tests, a base of 30 points of quality
TestWeight == 70
BaseQuality == 30
\* _apply_rubric: 2 points per warning, at most 20
WarningCost == 2
PenaltyCap == 20
\* JavaScriptEvaluator: score=100.0 if passed else 0.0, in tenths
JsFullScore == 1000

----------------------------------------------------------------------------
(* Small helpers.                                                          *)

Max(a, b) == IF a >= b THEN a ELSE b

Min(a, b) == IF a <= b THEN a ELSE b

\* xs[:n] as it would be if the slice were left out.
Take_whole(xs, n) == xs

\* Python's xs[:n]
Take(xs, n) == SubSeq(xs, 1, Min(Len(xs), n))

\* floor(num / den) for den > 0, also for a negative num
FloorDiv(num, den) == num \div den

\* round(num/den, 1) as it would be if the value were cut after the first
\* decimal instead of rounded.
RoundTenths_truncated(num, den) == FloorDiv(10 * num, den)

\* Python's round(num/den, 1) in tenths: to the nearest tenth, a tie to the
\* even tenth (the float results equal this for every count of the model).
RoundTenths(num, den) ==
    LET scaled == 10 * num
        fl     == FloorDiv(scaled, den)
        twice  == 2 * (scaled - fl * den)
    IN  IF twice > den THEN fl + 1
        ELSE IF twice < den THEN fl
        ELSE IF fl % 2 = 0 THEN fl ELSE fl + 1

\* A set of names as a sequence in name order, as a directory listing.
RECURSIVE SeqOf(_, _)
SeqOf(order, S) ==
    IF order = <<>> THEN <<>>
    ELSE IF Head(order) \in S
         THEN <<Head(order)>> \o SeqOf(Tail(order), S)
         ELSE SeqOf(Tail(order), S)

\* An f-string with one formatted value.
Msg(text, ref) == [text |-> text, ref |-> ref]

\* A dict with no key.
EmptyDict == [k \in {} |-> 0]

----------------------------------------------------------------------------
(* GradeResult and its JSON form.                                          *)

\* GradeResult(score=..., **given): the dataclass with its defaults.
GradeResult(score, passed, passed_tests, total_tests, errors, test_details, execution_time) ==
    [ score          |-> score,
      max_score      |-> MaxScore,
      passed         |-> passed,
      passed_tests   |-> passed_tests,
      total_tests    |-> total_tests,
      errors         |-> errors,
      warnings       |-> <<>>,
      suggestions    |-> <<>>,
      test_details   |-> test_details,
      rubric         |-> EmptyDict,
      diff_hints     |-> <<>>,
      execution_time |-> execution_time ]

\* GradeResult(score=0.0, errors=[...]): the result of a failed evaluation.
FailureResult(errors, execution_time) ==
    GradeResult(0, FALSE, 0, 0, errors, <<>>, execution_time)

\* GradeResult.to_dict
to_dict(r) ==
    [ score          |-> r.score,
      max_score      |-> r.max_score,
      passed         |-> r.passed,
      passed_tests   |-> r.passed_tests,
      total_tests    |-> r.total_tests,
      errors         |-> r.errors,
      warnings       |-> r.warnings,
      suggestions    |-> r.suggestions,
      test_details   |-> r.test_details,
      rubric         |-> r.rubric,
      diff_hints     |-> r.diff_hints,
      execution_time |-> r.execution_time ]

\* dict.get(key, default)
Get(data, key, default) == IF key \in DOMAIN data THEN data[key] ELSE default

\* from_dict as it would be if it read the hints under another key than the
\* one to_dict writes.
from_dict_other_hints_key(data) ==
    [ score          |-> Get(data, "score", 0),
      max_score      |-> Get(data, "max_score", MaxScore),
      passed         |-> Get(data, "passed", FALSE),
      passed_tests   |-> Get(data, "passed_tests", 0),
      total_tests    |-> Get(data, "total_tests", 0),
      errors         |-> Get(data, "errors", <<>>),
      warnings       |-> Get(data, "warnings", <<>>),
      suggestions    |-> Get(data, "suggestions", <<>>),
      test_details   |-> Get(data, "test_details", <<>>),
      rubric         |-> Get(data, "rubric", EmptyDict),
      diff_hints     |-> Get(data, "hints", <<>>),
      execution_time |-> Get(data, "execution_time", 0) ]

\* GradeResult.from_dict
from_dict(data) ==
    [ score          |-> Get(data, "score", 0),
      max_score      |-> Get(data, "max_score", MaxScore),
      passed         |-> Get(data, "passed", FALSE),
      passed_tests   |-> Get(data, "passed_tests", 0),
      total_tests    |-> Get(data, "total_tests", 0),
      errors         |-> Get(data, "errors", <<>>),
      warnings       |-> Get(data, "warnings", <<>>),
      suggestions    |-> Get(data, "suggestions", <<>>),
      test_details   |-> Get(data, "test_details", <<>>),
      rubric         |-> Get(data, "rubric", EmptyDict),
      diff_hints     |-> Get(data, "diff_hints", <<>>),
      execution_time |-> Get(data, "execution_time", 0) ]

----------------------------------------------------------------------------
(* The lab's directories.                                                  *)

\* The files a submission directory may hold, in listing order.
SubmissionOrder ==
    <<"app.js", "gen1.py", "gen2.py", "gen3.py", "gen4.py", "helpers.py", "main.py", "utils.py">>

SubmissionFiles == {SubmissionOrder[i] : i \in 1..Len(SubmissionOrder)}

\* The files a tests directory may hold, in listing order.
TestsOrder == <<"test_main.py", "test_runner.js">>

\* What a tests directory may hold besides the generated tests: helper
\* modules and fixtures that are not test files.
AnyTestFiles == {"conftest.py", "fixture.js", "test_main.py", "test_runner.js"}

TestFiles == {TestsOrder[i] : i \in 1..Len(TestsOrder)}

\* Generated modules: no docstring, and lines longer than 100 characters.
GeneratedFiles == {"gen1.py", "gen2.py", "gen3.py", "gen4.py"}

\* The files an editor session of the learner leaves in the submission
\* directory.
EditorFiles == {"app.js", "main.py"}

\* rglob("*.js") on the submission directory
IsJsFile(f) == f \in {"app.js", "fixture.js", "test_runner.js"}

\* rglob("*.py")
IsPyFile(f) ==
    f \in {"conftest.py", "helpers.py", "main.py", "utils.py", "test_main.py"} \cup GeneratedFiles

\* rglob("test*.py") on the tests directory
IsPyTest(f) == f \in {"test_main.py"}

\* rglob("test*.js") on the tests directory
IsJsTest(f) == f \in {"test_runner.js"}

\* the file holds a docstring marker (three double or three single quotes)
HasDocstringMarker(f) == f \in {"main.py"}

\* some line of the file is longer than 100 characters
HasLongLines(f) == f \in {"app.js"} \cup GeneratedFiles

\* lines.count("def ") > 0
HasDefLine(f) == f \in {"main.py"}

\* more than 10 lines start with "import " or "from "
HasManyImports(f) == f \in {"app.js"}

----------------------------------------------------------------------------
(* The grade artifact: save_grade and load_grade.                          *)

\* grade.json holds nothing (no file), text that is not JSON ("malformed"),
\* JSON that is no object ("non_object"), or a JSON object.
NoFile == [kind |-> "missing", obj |-> EmptyDict]

\* json.dumps(d) written to the file
json_dumps(d) == [kind |-> "object", obj |-> d]

\* Evaluator.save_grade: the file after save_grade(result)
save_grade(l, file, result) ==
    IF l.grade_path THEN json_dumps(to_dict(result)) ELSE file

\* A call's return: a value, None, or an exception.
Returned(grade) == [outcome |-> "result", grade |-> grade, error |-> ""]

ReturnedNone == [outcome |-> "none", grade |-> EmptyDict, error |-> ""]

Raised(error) == [outcome |-> "raised", grade |-> EmptyDict, error |-> error]

\* Evaluator.load_grade
load_grade(l, file) ==
    IF l.grade_path /\ file.kind # "missing"
    THEN CASE file.kind = "malformed"  -> ReturnedNone
           [] file.kind = "non_object" ->
                  Raised("AttributeError: 'list' object has no attribute 'get'")
           [] OTHER                    -> Returned(from_dict(file.obj))
    ELSE ReturnedNone

----------------------------------------------------------------------------
(* PythonEvaluator: static analysis, output parser, rubric.                *)

\* The warnings of a file as they would be if the docstring check were
\* inverted.
FileWarnings_docstring_check_inverted(f) ==
    (IF HasDocstringMarker(f)
     THEN <<Msg("{name}: Falta docstring", f)>> ELSE <<>>)
    \o (IF HasLongLines(f)
        THEN <<Msg("{name}: Líneas muy largas en: {lines}", f)>> ELSE <<>>)

\* The warnings and suggestions _analyze_code collects for one file.
FileWarnings(f) ==
    (IF ~HasDocstringMarker(f)
     THEN <<Msg("{name}: Falta docstring", f)>> ELSE <<>>)
    \o (IF HasLongLines(f)
        THEN <<Msg("{name}: Líneas muy largas en: {lines}", f)>> ELSE <<>>)

FileSuggestions(f) ==
    (IF HasDefLine(f)
     THEN <<Msg("{name}: Asegúrate de que las funciones tengan una sola responsabilidad", f)>>
     ELSE <<>>)
    \o (IF HasManyImports(f)
        THEN <<Msg("{name}: Considera reducir el número de imports", f)>> ELSE <<>>)

\* PythonEvaluator._analyze_code(files)
RECURSIVE _analyze_code(_)
_analyze_code(files) ==
    IF files = <<>> THEN [warnings |-> <<>>, suggestions |-> <<>>]
    ELSE LET rest == _analyze_code(Tail(files))
         IN  [ warnings    |-> FileWarnings(Head(files)) \o rest.warnings,
               suggestions |-> FileSuggestions(Head(files)) \o rest.suggestions ]

\* One entry of test_details for a test of the structured report.
TestDetail(test) ==
    IF test.outcome = "passed"
    THEN [name |-> test.nodeid, status |-> "passed", message |-> ""]
    ELSE [name |-> test.nodeid, status |-> test.outcome, message |-> "Error desconocido"]

\* The errors the structured report's tests add, in order.
RECURSIVE ReportErrors(_)
ReportErrors(report) ==
    IF report = <<>> THEN <<>>
    ELSE (IF Head(report).outcome = "passed" THEN <<>>
          ELSE <<Msg("{nodeid}: {message}", Head(report).nodeid)>>)
         \o ReportErrors(Tail(report))

\* The number of tests of the report whose outcome is "passed".
ReportPassed(report) ==
    Cardinality({i \in 1..Len(report) : report[i].outcome = "passed"})

\* Fallback of _parse_pytest_output: the counts read from the text of stdout.
\* [passed_tests, total_tests]
SummaryCounts(summary) ==
    IF summary.word
    THEN LET p == IF summary.has_passed THEN summary.passed ELSE 0
         IN  [ passed_tests |-> p,
               total_tests  |-> IF summary.has_failed THEN p + summary.failed ELSE p ]
    ELSE [passed_tests |-> 0, total_tests |-> 0]

\* PythonEvaluator._parse_pytest_output(result, exec_time).  stdout is
\* [json, summary]: the first line that starts with "{" and the text.
_parse_pytest_output(stdout, exec_time) ==
    IF stdout.json.kind = "bad_shape"
    THEN Raised("AttributeError: 'int' object has no attribute 'get'")
    ELSE LET report == IF stdout.json.kind = "report" THEN stdout.json.tests ELSE <<>>
             counts == IF Len(report) = 0
                       THEN SummaryCounts(stdout.summary)
                       ELSE [passed_tests |-> ReportPassed(report), total_tests |-> Len(report)]
             p      == counts.passed_tests
             t      == counts.total_tests
             \* score = p / t * 100, kept here in whole tenths
             score  == IF t > 0 THEN FloorDiv(p * 1000, t) ELSE 0
         IN  Returned(GradeResult(score, t > 0 /\ p * 100 >= 70 * t, p, t,
                                  Take(ReportErrors(report), ErrorCap),
                                  [i \in 1..Len(report) |-> TestDetail(report[i])],
                                  exec_time))

\* _apply_rubric as it would be if the penalty were added to the score
\* instead of taken from it.
_apply_rubric_penalty_added(result) ==
    LET den   == IF result.total_tests > 0 THEN result.total_tests ELSE 1
        tnum  == IF result.total_tests > 0 THEN result.passed_tests * TestWeight ELSE 0
        quality_penalty == Min(Len(result.warnings) * WarningCost, PenaltyCap)
        fnum  == Max(0, tnum + (BaseQuality + quality_penalty) * den)
        score == RoundTenths(fnum, den)
    IN  [result EXCEPT
            !.score  = score,
            !.passed = (fnum * 10 >= PassMark * den),
            !.rubric = [ tests        |-> RoundTenths(tnum, den),
                         base_quality |-> 10 * BaseQuality,
                         penalty      |-> -(10 * quality_penalty),
                         final        |-> score ]]

\* PythonEvaluator._apply_rubric(result)
_apply_rubric(result) ==
    LET den   == IF result.total_tests > 0 THEN result.total_tests ELSE 1
        \* test_score = passed_tests / total_tests * 70, as the fraction tnum/den
        tnum  == IF result.total_tests > 0 THEN result.passed_tests * TestWeight ELSE 0
        quality_penalty == Min(Len(result.warnings) * WarningCost, PenaltyCap)
        \* final_score = max(0, test_score + 30 - quality_penalty), as fnum/den
        fnum  == Max(0, tnum + (BaseQuality - quality_penalty) * den)
        score == RoundTenths(fnum, den)
    IN  [result EXCEPT
            !.score  = score,
            !.passed = (fnum * 10 >= PassMark * den),
            !.rubric = [ tests        |-> RoundTenths(tnum, den),
                         base_quality |-> 10 * BaseQuality,
                         penalty      |-> -(10 * quality_penalty),
                         final        |-> score ]]

----------------------------------------------------------------------------
(* PythonEvaluator: the runners.                                           *)

\* PythonEvaluator._run_pytest.  proc is what subprocess.run did: it timed
\* out, it raised (FileNotFoundError or another OSError), or it completed
\* with a stdout.
_run_pytest(proc, elapsed) ==
    CASE proc.kind = "timeout" ->
            Returned(FailureResult(
                <<Msg("Timeout: los tests tardaron más de {timeout}s", ToString(Timeout))>>,
                elapsed))
      [] proc.kind = "oserror" ->
            Raised("[Errno 2] No such file or directory")
      [] OTHER ->
            _parse_pytest_output(proc.stdout, elapsed)

\* The stream _run_unittest hands to unittest.TextTestRunner.
RunnerStream == "subprocess.PIPE"

\* HasWrite as it would be if the runner were given a stream it can write to.
HasWrite_any_stream(stream) == TRUE

\* Whether TextTestRunner can write to the stream: subprocess.PIPE is the
\* integer -1, which has no write method, so runner.run raises AttributeError.
HasWrite(stream) == stream # "subprocess.PIPE"

\* PythonEvaluator._run_unittest.  ut is what unittest does in this process:
\* whether discovery raises, and the counts of a completed run.
_run_unittest(previous_error, ut, elapsed) ==
    LET failure(e) ==
            FailureResult(
                Take(<<Msg("Error ejecutando tests: {e}", e), Msg("{previous_error}", previous_error)>>, 2),
                elapsed)
        total_tests  == ut.tests_run
        passed_tests == total_tests - ut.failures - ut.errors
        score        == IF total_tests > 0 THEN FloorDiv(passed_tests * 1000, total_tests) ELSE 0
    IN  IF ut.discover = "raises"
        THEN failure("ImportError: module incorrectly imported")
        ELSE IF ~HasWrite(RunnerStream)
        THEN failure("'int' object has no attribute 'write'")
        ELSE GradeResult(
                score,
                /\ total_tests > 0
                /\ passed_tests * 100 >= 70 * total_tests
                /\ ut.failures = 0
                /\ ut.errors = 0,
                passed_tests, total_tests,
                [i \in 1..(ut.failures + ut.errors) |-> Msg("{test}: {trace}", ToString(i))],
                <<>>, elapsed)

\* PythonEvaluator._run_tests: stage the workspace, run pytest, fall back to
\* unittest when _run_pytest raises; the workspace is removed on return.
_run_tests(proc, ut, elapsed) ==
    LET first == _run_pytest(proc, elapsed)
    IN  [ grade           |-> IF first.outcome = "raised"
                              THEN _run_unittest(first.error, ut, elapsed)
                              ELSE first.grade,
          staged          |-> 1,
          subprocess_runs |-> 1,
          fallback        |-> first.outcome = "raised" ]

\* What an evaluate() call did: the value it returned, the artifact it left,
\* the workspaces it staged, its calls of subprocess.run, whether the fallback
\* runner was started.
Evaluation(grade, file, staged, subprocess_runs, fallback) ==
    [ grade           |-> grade,
      file            |-> file,
      staged          |-> staged,
      subprocess_runs |-> subprocess_runs,
      fallback        |-> fallback ]

\* A return of evaluate() before any test is run.
EarlyReturn(text, file) ==
    Evaluation(FailureResult(<<Msg(text, "")>>, 0), file, 0, 0, FALSE)

\* The checks of PythonEvaluator.evaluate as they would be without the check
\* of the submission directory.
PythonPreflight_without_submission_check(l, sub, tst) ==
    IF ~l.submission_path \/ ~l.tests_path
    THEN "Lab mal configurado: falta submission_path o tests_path"
    ELSE IF {f \in tst : IsPyTest(f)} = {}
    THEN "No se encontraron archivos de test"
    ELSE ""

\* The checks PythonEvaluator.evaluate makes before it runs a test: the
\* error of the first that fails, "" when all pass.
PythonPreflight(l, sub, tst) ==
    IF ~l.submission_path \/ ~l.tests_path
    THEN "Lab mal configurado: falta submission_path o tests_path"
    ELSE IF {f \in tst : IsPyTest(f)} = {}
    THEN "No se encontraron archivos de test"
    ELSE IF sub = {}
    THEN "La carpeta de entrega está vacía"
    ELSE ""

\* PythonEvaluator.evaluate after _run_tests has returned: the analysis of
\* the submission's files is added to the result and the rubric is applied.
Graded(sub, run_grade) ==
    LET code_analysis == _analyze_code(SeqOf(SubmissionOrder, sub))
        analysed      == [run_grade EXCEPT
                             !.warnings    = @ \o code_analysis.warnings,
                             !.suggestions = @ \o code_analysis.suggestions]
    IN  _apply_rubric(analysed)

\* PythonEvaluator.evaluate
PythonEvaluate(l, sub, tst, file, proc, ut, elapsed) ==
    IF PythonPreflight(l, sub, tst) # ""
    THEN EarlyReturn(PythonPreflight(l, sub, tst), file)
    ELSE LET run           == _run_tests(proc, ut, elapsed)
             result        == Graded(sub, run.grade)
         IN  Evaluation(result, save_grade(l, file, result),
                        run.staged, run.subprocess_runs, run.fallback)

----------------------------------------------------------------------------
(* JavaScriptEvaluator.                                                    *)

\* The counts JavaScriptEvaluator.evaluate reads from the last line of
\* stdout: [passed_tests, total_tests, parsed], parsed when the line gave
\* both values.
JsCounts(stdout) ==
    IF stdout.kind # "json_object" \/ stdout.passed_kind = "bad"
    THEN [passed_tests |-> 0, total_tests |-> 0, parsed |-> FALSE]
    ELSE LET p == IF stdout.passed_kind = "int" THEN stdout.passed ELSE 0
         IN  CASE stdout.total_kind = "bad" ->
                      [passed_tests |-> p, total_tests |-> 0, parsed |-> FALSE]
               [] stdout.total_kind = "int" ->
                      [passed_tests |-> p, total_tests |-> stdout.total, parsed |-> TRUE]
               [] OTHER ->
                      [passed_tests |-> p, total_tests |-> p, parsed |-> TRUE]

\* The checks JavaScriptEvaluator.evaluate makes before it runs node: the
\* error of the first that fails, "" when all pass.
JavaScriptPreflight(l, sub, tst) ==
    IF ~l.submission_path \/ ~l.tests_path
    THEN "Lab mal configurado: falta submission_path o tests_path"
    ELSE IF {f \in sub : IsJsFile(f)} = {}
    THEN "No se encontraron archivos .js en la carpeta de entrega"
    ELSE IF {f \in tst : IsJsTest(f)} = {}
    THEN "No se encontraron archivos de test .js"
    ELSE ""

\* JavaScriptEvaluator.evaluate.  proc is what subprocess.run(["node", ...])
\* did: node was not found, it timed out, or it completed.
JavaScriptEvaluate(l, sub, tst, file, proc) ==
    IF JavaScriptPreflight(l, sub, tst) # ""
    THEN EarlyReturn(JavaScriptPreflight(l, sub, tst), file)
    ELSE CASE proc.kind = "not_found" ->
                Evaluation(
                    FailureResult(<<Msg("Node.js no está instalado o no está en PATH", "")>>, 0),
                    file, 0, 1, FALSE)
           [] proc.kind = "timeout" ->
                Evaluation(
                    FailureResult(
                        <<Msg("Timeout: más de {timeout}s ejecutando tests", ToString(Timeout))>>, 0),
                    file, 0, 1, FALSE)
           [] OTHER ->
                LET counts == JsCounts(proc.stdout)
                    passed == IF counts.parsed
                              THEN counts.passed_tests = counts.total_tests /\ proc.returncode = 0
                              ELSE proc.returncode = 0
                    errors == IF passed THEN <<>>
                              ELSE (IF proc.stderr # "" THEN <<Msg("{stderr}", proc.stderr)>> ELSE <<>>)
                                   \o (IF proc.stdout.kind # "empty"
                                       THEN <<Msg("{stdout}", proc.stdout.kind)>> ELSE <<>>)
                    total  == IF counts.total_tests # 0 THEN counts.total_tests
                              ELSE IF counts.passed_tests # 0 THEN counts.passed_tests
                              ELSE Cardinality({f \in tst : IsJsTest(f)})
                    grade  == GradeResult(IF passed THEN JsFullScore ELSE 0, passed,
                                          counts.passed_tests, total,
                                          Take(errors, JsErrorCap), <<>>, 0)
                IN  Evaluation(grade, save_grade(l, file, grade), 0, 1, FALSE)

----------------------------------------------------------------------------
(* The factory.                                                            *)

\* get_evaluator: the language of the evaluator it returns.  tests_path of
\* the lab record stands for "tests_path is set and the directory exists".
get_evaluator(l, tst) ==
    IF l.tests_path /\ \E f \in tst : IsPyFile(f) THEN "python"
    ELSE IF l.tests_path /\ \E f \in tst : IsJsFile(f) THEN "javascript"
    ELSE "python"

----------------------------------------------------------------------------
(* What the environment may do: the outputs of the test runners.           *)

Outcomes == {"passed", "failed", "skipped"}

\* The structured report with these outcomes: test i has node id "i".
Report(os) == [i \in 1..Len(os) |-> [nodeid |-> ToString(i), outcome |-> os[i]]]

Reports ==
    {Report(os) : os \in UNION {[1..n -> Outcomes] : n \in 0..MaxReportTests}}
    \cup {Report([i \in 1..LongReportTests |-> "failed"])}

PassedCounts == (0..MaxCount) \cup {BigPassed}

FailedCounts == (0..MaxCount) \cup {BigFailed}

\* The text of stdout: whether it holds the word "passed", "<n> passed",
\* "<n> failed".
NoSummary ==
    [word |-> FALSE, has_passed |-> FALSE, passed |-> 0, has_failed |-> FALSE, failed |-> 0]

Summaries ==
    {[word |-> w, has_passed |-> hp, passed |-> p, has_failed |-> hf, failed |-> f] :
        w \in BOOLEAN, hp \in BOOLEAN, p \in PassedCounts, hf \in BOOLEAN, f \in FailedCounts}

WellFormedSummary(s) ==
    /\ s.has_passed => s.word
    /\ ~s.has_passed => s.passed = 0
    /\ ~s.has_failed => s.failed = 0

PytestStdouts ==
    {[json |-> [kind |-> "report", tests |-> r], summary |-> NoSummary] : r \in Reports}
    \cup {[json |-> [kind |-> "none", tests |-> <<>>], summary |-> s] :
            s \in {x \in Summaries : WellFormedSummary(x)}}
    \cup {[json |-> [kind |-> k, tests |-> <<>>], summary |-> s] :
            k \in {"malformed", "report"},
            s \in {x \in Summaries : /\ WellFormedSummary(x)
                                      /\ x.has_passed /\ x.passed = MaxCount
                                      /\ x.has_failed /\ x.failed = MaxCount}}
    \cup {[json |-> [kind |-> "bad_shape", tests |-> <<>>], summary |-> NoSummary]}
    \cup {[json |-> [kind |-> "none", tests |-> <<>>],
           summary |-> [word |-> TRUE, has_passed |-> TRUE, passed |-> ScenarioTests,
                        has_failed |-> FALSE, failed |-> 0]]}

NoStdout == [json |-> [kind |-> "none", tests |-> <<>>], summary |-> NoSummary]

\* What subprocess.run of "python -m pytest" may do: exceed the timeout,
\* raise OSError, complete with a stdout, or complete with the interpreter's
\* "No module named pytest" on stderr and nothing on stdout ("no_pytest").
PytestRuns ==
    {[kind |-> k, stdout |-> NoStdout] : k \in {"timeout", "oserror", "no_pytest"}}
    \cup {[kind |-> "completed", stdout |-> s] : s \in PytestStdouts}

\* unittest is not run
NoUnittest == [discover |-> "ok", tests_run |-> 0, failures |-> 0, errors |-> 0]

\* pytest is not run
NoPytest == [kind |-> "timeout", stdout |-> NoStdout]

UnittestRuns ==
    {[NoUnittest EXCEPT !.discover = "raises"]}
    \cup {u \in [discover : {"ok"}, tests_run : 0..MaxCount, failures : 0..MaxCount,
                  errors : 0..MaxCount] :
            u.failures + u.errors <= u.tests_run}

Elapsed == 1..MaxElapsed

JsValueKinds == {"absent", "int", "bad"}

JsStdouts ==
    {[kind |-> k, passed_kind |-> "absent", passed |-> 0, total_kind |-> "absent", total |-> 0] :
        k \in {"empty", "text", "json_other"}}
    \cup {s \in [kind : {"json_object"}, passed_kind : JsValueKinds, passed : 0..MaxJsCount,
                 total_kind : JsValueKinds, total : 0..MaxJsCount] :
            /\ s.passed_kind # "int" => s.passed = 0
            /\ s.total_kind # "int" => s.total = 0}

NoJsStdout ==
    [kind |-> "empty", passed_kind |-> "absent", passed |-> 0, total_kind |-> "absent", total |-> 0]

\* node is not run
NoNode == [kind |-> "not_found", returncode |-> 0, stdout |-> NoJsStdout, stderr |-> ""]

JsRuns ==
    {[kind |-> k, returncode |-> 0, stdout |-> NoJsStdout, stderr |-> ""] :
        k \in {"not_found", "timeout"}}
    \cup {r \in [kind : {"completed"}, returncode : {0, 1}, stdout : JsStdouts,
                  stderr : {"", "AssertionError"}] :
            r.stderr # "" => r.returncode # 0}

\* GradeResult values handed to save_grade directly: the default one, and
\* one that differs from it in every field.
DefaultGrade == FailureResult(<<>>, 0)

FullGrade ==
    [ score          |-> 843,
      max_score      |-> 2 * MaxScore,
      passed         |-> TRUE,
      passed_tests   |-> 5,
      total_tests    |-> 6,
      errors         |-> <<Msg("{nodeid}: {message}", "6")>>,
      warnings       |-> <<Msg("{name}: Falta docstring", "app.js")>>,
      suggestions    |-> <<Msg("{name}: Considera reducir el número de imports", "app.js")>>,
      test_details   |-> <<[name |-> "6", status |-> "failed", message |-> "Error desconocido"]>>,
      rubric         |-> [tests |-> 583, base_quality |-> 300, penalty |-> -40, final |-> 843],
      diff_hints     |-> <<Msg("{hint}", "usa sorted()")>>,
      execution_time |-> 1 ]

SampleGrades == {DefaultGrade, FullGrade}

----------------------------------------------------------------------------
(* The courses directory (core/persistence.py) and the student's state     *)
(* (core/state.py).                                                        *)

\* The paths under courses/ that the slugs of the model name.  cmd_create
\* takes the slug from the topic (topic.lower().replace(" ", "-")), so the
\* topic "CI/CD" gives the slug "ci/cd", a directory inside courses/ci.
CoursePaths == {"redes", "ci", "ci/cd"}

\* Path p lies inside directory q.
IsInside(p, q) == <<p, q>> \in {<<"ci/cd", "ci">>}

\* courses_dir.iterdir() yields p.
TopLevel(p) == \A q \in CoursePaths : ~IsInside(p, q)

\* Python's None where a string is expected.
NoneValue == "None"

\* A course directory: whether it exists, the slug written in its
\* course.yaml ("" when there is no course.yaml), the number of units of
\* that course, its state.json, the lab directories <<unit, lab slug>>, and
\* whether it came out of an archive.
CourseDir(exists, yaml, units, state, labs, imported) ==
    [ exists   |-> exists,
      yaml     |-> yaml,
      units    |-> units,
      state    |-> state,
      labs     |-> labs,
      imported |-> imported ]

NoDir == CourseDir(FALSE, "", 0, NoFile, {}, FALSE)

\* LabResult, with score in tenths
LabResult(lab_slug, status, score, passed_tests, total_tests) ==
    [ lab_slug     |-> lab_slug,
      status       |-> status,
      score        |-> score,
      max_score    |-> MaxScore,
      passed_tests |-> passed_tests,
      total_tests  |-> total_tests ]

\* LabResult.to_dict
LabResult_to_dict(r) ==
    [ lab_slug     |-> r.lab_slug,
      status       |-> r.status,
      score        |-> r.score,
      max_score    |-> r.max_score,
      passed_tests |-> r.passed_tests,
      total_tests  |-> r.total_tests ]

\* LabResult.from_dict
LabResult_from_dict(data) ==
    [ lab_slug     |-> data.lab_slug,
      status       |-> data.status,
      score        |-> Get(data, "score", 0),
      max_score    |-> Get(data, "max_score", MaxScore),
      passed_tests |-> Get(data, "passed_tests", 0),
      total_tests  |-> Get(data, "total_tests", 0) ]

\* UnitProgress
UnitProgress(unit_number, status, lab_results) ==
    [ unit_number |-> unit_number,
      status      |-> status,
      lab_results |-> lab_results ]

\* UnitProgress.to_dict
UnitProgress_to_dict(u) ==
    [ unit_number |-> u.unit_number,
      status      |-> u.status,
      lab_results |-> [k \in DOMAIN u.lab_results |-> LabResult_to_dict(u.lab_results[k])] ]

\* UnitProgress.from_dict
UnitProgress_from_dict(data) ==
    LET results == Get(data, "lab_results", EmptyDict)
    IN  [ unit_number |-> data.unit_number,
          status      |-> Get(data, "status", "not_started"),
          lab_results |-> [k \in DOMAIN results |-> LabResult_from_dict(results[k])] ]

\* CourseState
CourseState(course_slug, current_unit, current_lab, unit_progress) ==
    [ course_slug   |-> course_slug,
      current_unit  |-> current_unit,
      current_lab   |-> current_lab,
      unit_progress |-> unit_progress ]

\* int(k) of a key of the JSON object
ParseInt(k) == CHOOSE n \in 0..(MaxUnits + 1) : ToString(n) = k

\* CourseState.to_dict: the keys of unit_progress become strings.
CourseState_to_dict(st) ==
    [ course_slug   |-> st.course_slug,
      current_unit  |-> st.current_unit,
      current_lab   |-> st.current_lab,
      unit_progress |->
          [ks \in {ToString(k) : k \in DOMAIN st.unit_progress} |->
              UnitProgress_to_dict(st.unit_progress[ParseInt(ks)])] ]

\* CourseState.from_dict as it would be if it read the current unit under
\* another key than the one to_dict writes.
CourseState_from_dict_other_unit_key(data) ==
    LET progress == Get(data, "unit_progress", EmptyDict)
    IN  [ course_slug   |-> data.course_slug,
          current_unit  |-> Get(data, "unit", 1),
          current_lab   |-> Get(data, "current_lab", NoneValue),
          unit_progress |->
              [k \in {ParseInt(ks) : ks \in DOMAIN progress} |->
                  UnitProgress_from_dict(progress[ToString(k)])] ]

\* CourseState.from_dict: the keys of unit_progress become integers again.
CourseState_from_dict(data) ==
    LET progress == Get(data, "unit_progress", EmptyDict)
    IN  [ course_slug   |-> data.course_slug,
          current_unit  |-> Get(data, "current_unit", 1),
          current_lab   |-> Get(data, "current_lab", NoneValue),
          unit_progress |->
              [k \in {ParseInt(ks) : ks \in DOMAIN progress} |->
                  UnitProgress_from_dict(progress[ToString(k)])] ]

\* CourseState(course_slug=slug)
InitialState(slug) == CourseState(slug, 1, NoneValue, EmptyDict)

\* What load_state returns: found is FALSE for None.
LoadedNone == [found |-> FALSE, state |-> InitialState("")]

\* CourseState.save: json.dump(self.to_dict(), f)
CourseState_save(st) == json_dumps(CourseState_to_dict(st))

\* CoursePersistence.load_state: None when state.json is absent or cannot
\* be read as a state.
load_state(dirs, slug) ==
    LET file == dirs[slug].state
    IN  IF file.kind = "missing" THEN LoadedNone
        ELSE IF file.kind # "object" \/ "course_slug" \notin DOMAIN file.obj
        THEN LoadedNone
        ELSE [found |-> TRUE, state |-> CourseState_from_dict(file.obj)]

\* path.mkdir(parents=True, exist_ok=True) of the directory of slug
MakeDirs(dirs, slug) ==
    [p \in CoursePaths |->
        IF p = slug \/ IsInside(slug, p)
        THEN [dirs[p] EXCEPT !.exists = TRUE]
        ELSE dirs[p]]

\* CoursePersistence.save_state
save_state(dirs, st) ==
    [MakeDirs(dirs, st.course_slug) EXCEPT
        ![st.course_slug].state = CourseState_save(st)]

\* CoursePersistence.create_course of a course with n units: course.save()
\* writes course.yaml; what the directory already holds stays.
create_course(dirs, slug, n) ==
    [MakeDirs(dirs, slug) EXCEPT ![slug].yaml = slug, ![slug].units = n]

\* CoursePersistence.delete_course: shutil.rmtree of the course path
delete_course(dirs, slug) ==
    IF dirs[slug].exists
    THEN [p \in CoursePaths |-> IF p = slug \/ IsInside(p, slug) THEN NoDir ELSE dirs[p]]
    ELSE dirs

\* CoursePersistence.course_exists
course_exists(dirs, slug) == dirs[slug].yaml # ""

\* CoursePersistence.list_courses: the slugs of the list it returns
list_courses(dirs) ==
    {dirs[p].yaml : p \in {q \in CoursePaths : TopLevel(q) /\ dirs[q].exists /\ dirs[q].yaml # ""}}

----------------------------------------------------------------------------
(* The state machine.                                                      *)

\* What ret holds after a call.
Call(op, evaluator, r, runner, e, input) ==
    [ op              |-> op,
      evaluator       |-> evaluator,
      input           |-> input,
      outcome         |-> r.outcome,
      grade           |-> r.grade,
      error           |-> r.error,
      runner          |-> runner,
      staged          |-> e.staged,
      subprocess_runs |-> e.subprocess_runs,
      fallback        |-> e.fallback ]

\* A call that runs no test.
NoRun == [staged |-> 0, subprocess_runs |-> 0, fallback |-> FALSE]

\* A call that is given no process output.
NoInput == [kind |-> "none"]

\* ret when no call of the evaluator has just returned.
Idle == Call("", "", ReturnedNone, "none", NoRun, NoInput)

\* The evaluations that run step by step, and the labs they grade.
Evals == {1, 2}

LabIds == {"lab_a", "lab_b"}

\* No test-runner process has been started.
NoProcess == [cwd |-> "none", tests |-> "none"]

\* An evaluation that has not begun.
IdleEval ==
    [ pc        |-> "idle",
      lab       |-> "",
      evaluator |-> "",
      input     |-> NoInput,
      outcome   |-> "none",
      grade     |-> DefaultGrade,
      error     |-> "",
      staged    |-> FALSE,
      fallback  |-> FALSE,
      process   |-> NoProcess,
      after     |-> {} ]

\* The mutable objects an evaluation's own steps write: its temporary
\* workspace, the grade.json of its lab, the interpreter's sys.path.
TmpDir(p) == [kind |-> "tmpdir", of |-> ToString(p)]

GradeJson(l) == [kind |-> "grade.json", of |-> l]

SysPath == [kind |-> "sys.path", of |-> ""]

Objects == {TmpDir(p) : p \in Evals} \cup {GradeJson(l) : l \in LabIds} \cup {SysPath}

\* No evaluation runs step by step.
NoRuns ==
    /\ evals = [p \in Evals |-> IdleEval]
    /\ workdirs = {}
    /\ sys_path = <<>>
    /\ grades = [l \in LabIds |-> NoFile]
    /\ writers = [o \in Objects |-> {}]

\* No call of the persistence, of the importer or of the application has
\* just returned.
NoReply == [op |-> ""]

\* TutorApp after __init__: current_course, current_state and current_unit
\* are None.  current_unit is held as the number of the unit, 0 for None;
\* lab_selected_in is the unit that was current when cmd_lab chose the
\* state's current_lab, 0 when cmd_lab has not chosen it.
NoApp ==
    [ has_course      |-> FALSE,
      course          |-> [slug |-> "", units |-> 0],
      has_state       |-> FALSE,
      state           |-> InitialState(""),
      current_unit    |-> 0,
      lab_selected_in |-> 0 ]

\* An empty courses directory and an application that has loaded nothing.
NoCourses ==
    /\ courses = [p \in CoursePaths |-> NoDir]
    /\ last_op = [p \in CoursePaths |-> "none"]
    /\ reply = NoReply
    /\ app = NoApp

\* A lab directory as the application finds it: a Lab whose paths are set or
\* not, empty submission and tests folders, and a grade.json that is absent,
\* the initial "{}", or damaged.
Init ==
    /\ lab \in [submission_path : BOOLEAN, tests_path : BOOLEAN, grade_path : BOOLEAN]
    /\ submission = {}
    /\ tests = {}
    /\ grade_file \in {NoFile, json_dumps(EmptyDict),
                       [kind |-> "malformed", obj |-> EmptyDict],
                       [kind |-> "non_object", obj |-> EmptyDict]}
    /\ ret = Idle
    /\ NoRuns
    /\ NoCourses

\* The runs of pytest an evaluation may meet: the process matters only to a
\* call that passes the pre-flight checks.
PytestRunsOf(l, sub, tst) ==
    IF PythonPreflight(l, sub, tst) # "" THEN {NoPytest} ELSE PytestRuns

\* The runs of unittest an evaluation may meet: unittest runs only when
\* _run_pytest raises.
UnittestRunsOf(l, sub, tst, proc) ==
    IF PythonPreflight(l, sub, tst) = "" /\ _run_pytest(proc, 1).outcome = "raised"
    THEN UnittestRuns ELSE {NoUnittest}

\* The runs of node an evaluation may meet.
JsRunsOf(l, sub, tst) ==
    IF JavaScriptPreflight(l, sub, tst) # "" THEN {NoNode} ELSE JsRuns

\* evaluator = PythonEvaluator(lab); evaluator.evaluate()
EvaluatePython ==
    \E proc \in PytestRunsOf(lab, submission, tests), elapsed \in Elapsed :
      \E ut \in UnittestRunsOf(lab, submission, tests, proc) :
       \E e \in {PythonEvaluate(lab, submission, tests, grade_file, proc, ut, elapsed)} :
        LET runner == IF e.subprocess_runs = 0 THEN "none" ELSE proc.kind
        IN  /\ grade_file' = e.file
            /\ ret' = Call("evaluate", "python", Returned(e.grade), runner, e,
                         IF e.subprocess_runs = 0 THEN NoInput ELSE proc)
            /\ UNCHANGED <<lab, submission, tests, evals, workdirs, sys_path, grades, writers, courseVars>>

\* evaluator = JavaScriptEvaluator(lab); evaluator.evaluate()
EvaluateJavaScript ==
    \E proc \in JsRunsOf(lab, submission, tests) :
       \E e \in {JavaScriptEvaluate(lab, submission, tests, grade_file, proc)} :
        LET runner == IF e.subprocess_runs = 0 THEN "none" ELSE proc.kind
        IN  /\ grade_file' = e.file
            /\ ret' = Call("evaluate", "javascript", Returned(e.grade), runner, e,
                         IF e.subprocess_runs = 0 THEN NoInput ELSE proc)
            /\ UNCHANGED <<lab, submission, tests, evals, workdirs, sys_path, grades, writers, courseVars>>

\* evaluator.save_grade(r); ret keeps the argument.
SaveGrade ==
    \E r \in SampleGrades :
        /\ grade_file' = save_grade(lab, grade_file, r)
        /\ ret' = Call("save_grade", "", [ReturnedNone EXCEPT !.grade = r], "none", NoRun, NoInput)
        /\ UNCHANGED <<lab, submission, tests, evals, workdirs, sys_path, grades, writers, courseVars>>

\* evaluator.load_grade()
LoadGrade ==
    /\ ret' = Call("load_grade", "", load_grade(lab, grade_file), "none", NoRun, NoInput)
    /\ UNCHANGED <<lab, submission, tests, grade_file, evals, workdirs, sys_path, grades, writers, courseVars>>

\* TutorApp._ensure_lab_structure: grade.json is created as "{}" when absent.
EnsureLabStructure ==
    /\ grade_file' = IF grade_file.kind = "missing" THEN json_dumps(EmptyDict) ELSE grade_file
    /\ ret' = Idle
    /\ UNCHANGED <<lab, submission, tests, evals, workdirs, sys_path, grades, writers, courseVars>>

\* LabWorkspace.open_editor: the learner's editor session leaves any set of
\* files in the submission directory.
OpenEditor ==
    \E files \in SUBSET EditorFiles :
        /\ lab.submission_path
        /\ submission' = files
        /\ ret' = Idle
        /\ UNCHANGED <<lab, tests, grade_file, evals, workdirs, sys_path, grades, writers, courseVars>>

\* TutorApp._generate_lab_with_ai: the generated test files are written.
WriteTests ==
    \E files \in SUBSET TestFiles :
        /\ lab.tests_path
        /\ tests' = tests \cup files
        /\ ret' = Idle
        /\ UNCHANGED <<lab, submission, grade_file, evals, workdirs, sys_path, grades, writers, courseVars>>

Next ==
    \/ EvaluatePython
    \/ EvaluateJavaScript
    \/ SaveGrade
    \/ LoadGrade
    \/ EnsureLabStructure
    \/ OpenEditor
    \/ WriteTests

Spec == Init /\ [][Next]_vars

\* A configured lab without grade_path, found with any files in its
\* directories, on which evaluations are run again and again.
EvalInit ==
    /\ lab = [submission_path |-> TRUE, tests_path |-> TRUE, grade_path |-> FALSE]
    /\ submission \in {written \cup generated :
                          written \in SUBSET (SubmissionFiles \ GeneratedFiles),
                          generated \in {{}, GeneratedFiles}}
    /\ tests \in SUBSET TestFiles
    /\ grade_file = NoFile
    /\ ret = Idle
    /\ NoRuns
    /\ NoCourses

EvalNext ==
    \/ EvaluatePython
    \/ EvaluateJavaScript

EvalSpec == EvalInit /\ [][EvalNext]_vars

\* cmd_submit's dispatch: a lab with a declared language, whose tests
\* directory holds any files, is handed to get_evaluator and the evaluator
\* it returns is run.
DispatchInit ==
    /\ lab \in [submission_path : {TRUE}, tests_path : BOOLEAN, grade_path : {TRUE},
                language : {"python", "javascript"}]
    /\ submission \in {{}, EditorFiles}
    /\ tests \in SUBSET AnyTestFiles
    /\ ~lab.tests_path => tests = {}
    /\ grade_file = NoFile
    /\ ret = Idle
    /\ NoRuns
    /\ NoCourses

\* evaluator = get_evaluator(lab); result = evaluator.evaluate()
DispatchPython ==
    /\ get_evaluator(lab, tests) = "python"
    /\ EvaluatePython

DispatchJavaScript ==
    /\ get_evaluator(lab, tests) = "javascript"
    /\ EvaluateJavaScript

DispatchNext ==
    \/ DispatchPython
    \/ DispatchJavaScript

DispatchSpec == DispatchInit /\ [][DispatchNext]_vars

----------------------------------------------------------------------------
(* Evaluations step by step: two evaluations, of the same lab or of two    *)
(* labs with the same files, whose steps interleave.                       *)

\* The processes the stepwise evaluations meet.
StepPytestRuns ==
    {r \in PytestRuns :
        \/ r.kind # "completed"
        \/ r.stdout.json.kind = "bad_shape"
        \/ r.stdout.summary.passed = ScenarioTests}

StepJsRuns ==
    {r \in JsRuns :
        \/ r.kind # "completed"
        \/ r.stdout.kind = "empty"}

\* AfterRun as it would be if the directory were removed only on a return:
\* an exception leaves the block without the removal.
AfterRun_removal_on_return_only(outcome) ==
    IF outcome = "raised" THEN "raised" ELSE "cleanup"

\* Where an evaluation goes when it leaves the "with TemporaryDirectory()"
\* block of _run_tests, by a return or by an exception: the directory is
\* removed on every exit.
AfterRun(outcome) == "cleanup"

\* evaluate() begins: the pre-flight checks of the lab.
Begin(p) ==
    \E l \in LabIds, ev \in {"python", "javascript"} :
        LET failed == IF ev = "python"
                      THEN PythonPreflight(lab, submission, tests)
                      ELSE JavaScriptPreflight(lab, submission, tests)
            begun  == [evals[p] EXCEPT
                          !.lab = l, !.evaluator = ev,
                          !.after = {q \in Evals : evals[q].pc \in {"done", "raised"}}]
        IN  /\ evals[p].pc = "idle"
            /\ evals' = [evals EXCEPT ![p] =
                   IF failed # ""
                   THEN [begun EXCEPT !.pc = "done", !.outcome = "result",
                                      !.grade = FailureResult(<<Msg(failed, "")>>, 0)]
                   ELSE [begun EXCEPT !.pc = IF ev = "python" THEN "stage" ELSE "node"]]
            /\ UNCHANGED <<lab, submission, tests, grade_file, ret,
                           workdirs, sys_path, grades, writers, courseVars>>

\* _run_tests: the temporary directory is created and the submission and the
\* tests are copied into it; the copy may raise (OSError).
Stage(p) ==
    \E copied \in BOOLEAN :
        /\ evals[p].pc = "stage"
        /\ workdirs' = workdirs \cup {p}
        /\ writers' = [writers EXCEPT ![TmpDir(p)] = @ \cup {p}]
        /\ evals' = [evals EXCEPT ![p] =
               IF copied
               THEN [@ EXCEPT !.pc = "pytest", !.staged = TRUE]
               ELSE [@ EXCEPT !.pc = AfterRun("raised"), !.staged = TRUE,
                              !.outcome = "raised",
                              !.error = "[Errno 13] Permission denied"]]
        /\ UNCHANGED <<lab, submission, tests, grade_file, ret, sys_path, grades, courseVars>>

\* _run_pytest: the subprocess runs in the workspace, on the copied tests.
RunPytest(p) ==
    \E proc \in StepPytestRuns :
        LET first == _run_pytest(proc, 1)
        IN  /\ evals[p].pc = "pytest"
            /\ evals' = [evals EXCEPT ![p] =
                   IF first.outcome = "raised"
                   THEN [@ EXCEPT !.pc = "insert_paths", !.input = proc,
                                  !.process = [cwd |-> "workspace", tests |-> "workspace/tests"],
                                  !.fallback = TRUE, !.error = first.error]
                   ELSE [@ EXCEPT !.pc = AfterRun("returned"), !.input = proc,
                                  !.process = [cwd |-> "workspace", tests |-> "workspace/tests"],
                                  !.outcome = "result", !.grade = first.grade]]
            /\ UNCHANGED <<lab, submission, tests, grade_file, ret,
                           workdirs, sys_path, grades, writers, courseVars>>

\* _run_unittest: sys.path.insert(0, submission copy); sys.path.insert(0, tests copy)
InsertPaths(p) ==
    /\ evals[p].pc = "insert_paths"
    /\ sys_path' = <<[dir |-> "tests", of |-> p], [dir |-> "submission", of |-> p]>> \o sys_path
    /\ writers' = [writers EXCEPT ![SysPath] = @ \cup {p}]
    /\ evals' = [evals EXCEPT ![p].pc = "unittest"]
    /\ UNCHANGED <<lab, submission, tests, grade_file, ret, workdirs, grades, courseVars>>

\* _run_unittest: discovery and run in this process, and the except branch.
RunUnittest(p) ==
    \E ut \in UnittestRuns :
        /\ evals[p].pc = "unittest"
        /\ evals' = [evals EXCEPT ![p] =
               [@ EXCEPT !.pc = "pop_paths", !.outcome = "result",
                         !.grade = _run_unittest(evals[p].error, ut, 1)]]
        /\ UNCHANGED <<lab, submission, tests, grade_file, ret,
                       workdirs, sys_path, grades, writers, courseVars>>

\* _run_unittest, finally: sys.path.pop(0); sys.path.pop(0)
PopPaths(p) ==
    /\ evals[p].pc = "pop_paths"
    /\ sys_path' = Tail(Tail(sys_path))
    /\ writers' = [writers EXCEPT ![SysPath] = @ \cup {p}]
    /\ evals' = [evals EXCEPT ![p].pc = AfterRun("returned")]
    /\ UNCHANGED <<lab, submission, tests, grade_file, ret, workdirs, grades, courseVars>>

\* The exit of the "with" block: the temporary directory is removed; an
\* exception goes on to the caller of evaluate().
Cleanup(p) ==
    /\ evals[p].pc = "cleanup"
    /\ workdirs' = workdirs \ {p}
    /\ writers' = [writers EXCEPT ![TmpDir(p)] = @ \cup {p}]
    /\ evals' = [evals EXCEPT ![p].pc =
           IF evals[p].outcome = "raised" THEN "raised" ELSE "finish"]
    /\ UNCHANGED <<lab, submission, tests, grade_file, ret, sys_path, grades, courseVars>>

\* PythonEvaluator.evaluate after _run_tests: analysis, rubric, save_grade.
Finish(p) ==
    /\ evals[p].pc = "finish"
    /\ \E result \in {Graded(submission, evals[p].grade)} :
        /\ grades' = [grades EXCEPT ![evals[p].lab] = save_grade(lab, @, result)]
        /\ writers' = [writers EXCEPT ![GradeJson(evals[p].lab)] =
               IF lab.grade_path THEN @ \cup {p} ELSE @]
        /\ evals' = [evals EXCEPT ![p] = [@ EXCEPT !.pc = "done", !.grade = result]]
        /\ UNCHANGED <<lab, submission, tests, grade_file, ret, workdirs, sys_path, courseVars>>

\* JavaScriptEvaluator.evaluate: node runs the first test file of the lab's
\* tests directory, with the lab's directory as its working directory.
RunNode(p) ==
    /\ evals[p].pc = "node"
    /\ \E proc \in StepJsRuns :
      \E e \in {JavaScriptEvaluate(lab, submission, tests, grades[evals[p].lab], proc)} :
        /\ evals' = [evals EXCEPT ![p] =
               [@ EXCEPT !.pc = IF proc.kind = "completed" THEN "save" ELSE "done",
                         !.input = proc,
                         !.process = [cwd |-> "lab", tests |-> "lab/tests"],
                         !.outcome = "result", !.grade = e.grade]]
        /\ UNCHANGED <<lab, submission, tests, grade_file, ret,
                       workdirs, sys_path, grades, writers, courseVars>>

\* JavaScriptEvaluator.evaluate: self.save_grade(grade)
SaveJs(p) ==
    /\ evals[p].pc = "save"
    /\ grades' = [grades EXCEPT ![evals[p].lab] = save_grade(lab, @, evals[p].grade)]
    /\ writers' = [writers EXCEPT ![GradeJson(evals[p].lab)] =
           IF lab.grade_path THEN @ \cup {p} ELSE @]
    /\ evals' = [evals EXCEPT ![p].pc = "done"]
    /\ UNCHANGED <<lab, submission, tests, grade_file, ret, workdirs, sys_path, courseVars>>

\* Two configured labs with a submission and tests, no evaluation begun.
RunInit ==
    /\ lab = [submission_path |-> TRUE, tests_path |-> TRUE, grade_path |-> TRUE]
    /\ submission \in {{}, EditorFiles}
    /\ tests = TestFiles
    /\ grade_file = NoFile
    /\ ret = Idle
    /\ NoRuns
    /\ NoCourses

RunNext ==
    \E p \in Evals :
        \/ Begin(p)
        \/ Stage(p)
        \/ RunPytest(p)
        \/ InsertPaths(p)
        \/ RunUnittest(p)
        \/ PopPaths(p)
        \/ Cleanup(p)
        \/ Finish(p)
        \/ RunNode(p)
        \/ SaveJs(p)

RunSpec == RunInit /\ [][RunNext]_vars

----------------------------------------------------------------------------
(* CoursePersistence: courses are created and deleted, looked up and       *)
(* listed, and the student's state is saved and loaded.                    *)

\* No lab is being evaluated.
NoEvaluation ==
    /\ lab = [submission_path |-> TRUE, tests_path |-> TRUE, grade_path |-> TRUE]
    /\ submission = {}
    /\ tests = {}
    /\ grade_file = NoFile
    /\ ret = Idle
    /\ NoRuns

\* The courses whose state is saved and loaded.
StateSlugs == {"redes"}

\* The lab result of the serialization test: 85.0, 5 of 6 tests.
SampleLabResult == LabResult("test-lab", "passed", 850, 5, 6)

UnitProgressOf(n) ==
    { UnitProgress(n, "not_started", EmptyDict),
      UnitProgress(n, "practicing", [k \in {"test-lab"} |-> SampleLabResult]) }

\* unit_progress: any units with progress, with or without a lab result
ProgressMaps ==
    UNION {{f \in [units -> UNION {UnitProgressOf(n) : n \in units}] :
                \A n \in units : f[n].unit_number = n} :
           units \in SUBSET (1..MaxUnits)}

\* The states save_state is given.
SavedStates ==
    {CourseState(slug, unit, current_lab, progress) :
        slug \in StateSlugs, unit \in 1..MaxUnits,
        current_lab \in {NoneValue, "test-lab"}, progress \in ProgressMaps}

\* persistence.create_course(course), course with n units
CreateCourse ==
    \E slug \in CoursePaths, n \in 0..MaxUnits :
        /\ courses' = create_course(courses, slug, n)
        /\ last_op' = [last_op EXCEPT ![slug] = "create"]
        /\ reply' = [op |-> "create_course", slug |-> slug]
        /\ UNCHANGED <<evalVars, app>>

\* persistence.delete_course(slug)
DeleteCourse ==
    \E slug \in CoursePaths :
        /\ courses' = delete_course(courses, slug)
        /\ last_op' = [last_op EXCEPT ![slug] = "delete"]
        /\ reply' = [op |-> "delete_course", slug |-> slug]
        /\ UNCHANGED <<evalVars, app>>

\* persistence.course_exists(slug)
CourseExists ==
    \E slug \in CoursePaths :
        /\ reply' = [op |-> "course_exists", slug |-> slug,
                     result |-> course_exists(courses, slug)]
        /\ UNCHANGED <<evalVars, courses, last_op, app>>

\* persistence.list_courses()
ListCourses ==
    /\ reply' = [op |-> "list_courses", result |-> list_courses(courses)]
    /\ UNCHANGED <<evalVars, courses, last_op, app>>

\* persistence.save_state(state)
SaveState ==
    \E st \in SavedStates :
        /\ courses' = save_state(courses, st)
        /\ reply' = [op |-> "save_state", state |-> st]
        /\ UNCHANGED <<evalVars, last_op, app>>

\* persistence.load_state(slug); the reply keeps the state that the call
\* just before saved for this slug, if that call was save_state.
LoadState ==
    \E slug \in StateSlugs :
        LET after_save == reply.op = "save_state" /\ reply.state.course_slug = slug
        IN  /\ reply' = [op |-> "load_state", slug |-> slug,
                         result |-> load_state(courses, slug),
                         after_save |-> after_save,
                         saved |-> IF after_save THEN reply.state ELSE InitialState("")]
            /\ UNCHANGED <<evalVars, courses, last_op, app>>

\* No evaluation has run and the courses directory is empty.
CoursesInit ==
    /\ NoEvaluation
    /\ NoCourses

PersistNext ==
    \/ CreateCourse
    \/ DeleteCourse
    \/ CourseExists
    \/ ListCourses
    \/ SaveState
    \/ LoadState

PersistSpec == CoursesInit /\ [][PersistNext]_vars

----------------------------------------------------------------------------
(* TutorApp: a course is created or resumed, a unit and a lab are chosen,  *)
(* the lab is submitted, the course is deleted.                            *)

\* The slugs the commands are given, and the labs cmd_lab is asked for.
AppSlugs == {"redes", "ci"}

AppLabs == {"lab01"}

\* TutorApp._get_unit_progress(n): the state, with a progress for unit n.
WithUnitProgress(st, n) ==
    IF n \in DOMAIN st.unit_progress THEN st
    ELSE LET old == st.unit_progress
         IN  [st EXCEPT !.unit_progress =
                 [k \in (DOMAIN old) \cup {n} |->
                     IF k = n THEN UnitProgress(n, "not_started", EmptyDict) ELSE old[k]]]

\* TutorApp.load_course(slug): [app, courses] after the call.
TutorApp_load_course(dirs, a, slug) ==
    IF ~dirs[slug].exists \/ dirs[slug].yaml = ""
    THEN [app |-> [NoApp EXCEPT !.lab_selected_in = a.lab_selected_in],
          courses |-> dirs]
    ELSE LET units  == dirs[slug].units
             found  == load_state(dirs, slug)
             st     == IF found.found THEN found.state ELSE InitialState(slug)
             unit   == IF st.current_unit > 0 /\ st.current_unit <= units
                       THEN st.current_unit
                       ELSE IF units > 0 THEN 1 ELSE 0
         IN  [ app |-> [ has_course      |-> TRUE,
                         course          |-> [slug |-> slug, units |-> units],
                         has_state       |-> TRUE,
                         state           |-> st,
                         current_unit    |-> unit,
                         lab_selected_in |-> IF found.found THEN a.lab_selected_in ELSE 0 ],
               courses |-> IF found.found THEN dirs ELSE save_state(dirs, st) ]

\* TutorApp._ensure_lab_structure: the lab directory of the unit
EnsureLab(dirs, slug, unit, lab_slug) ==
    [MakeDirs(dirs, slug) EXCEPT ![slug].labs = @ \cup {<<unit, lab_slug>>}]

\* What the evaluation of the submitted lab returns: a lab directory that
\* cmd_submit has just created is empty; one that existed may hold a
\* submission and tests that pass.
SubmitGrades(created) ==
    LET all_paths == [submission_path |-> TRUE, tests_path |-> TRUE, grade_path |-> TRUE]
        six       == [kind |-> "completed",
                      stdout |-> [json |-> [kind |-> "none", tests |-> <<>>],
                                  summary |-> [word |-> TRUE, has_passed |-> TRUE,
                                               passed |-> ScenarioTests,
                                               has_failed |-> FALSE, failed |-> 0]]]
        empty     == PythonEvaluate(all_paths, {}, {}, json_dumps(EmptyDict),
                                    NoPytest, NoUnittest, 1).grade
        full      == PythonEvaluate(all_paths, {"main.py"}, {"test_main.py"},
                                    json_dumps(EmptyDict), six, NoUnittest, 1).grade
    IN  IF created THEN {empty} ELSE {empty, full}

\* cmd_new: the course is written with create_course and then loaded.
CmdNew ==
    \E slug \in StateSlugs, n \in 0..MaxUnits :
      \E loaded \in {TutorApp_load_course(create_course(courses, slug, n), app, slug)} :
        /\ app' = loaded.app
        /\ courses' = loaded.courses
        /\ last_op' = [last_op EXCEPT ![slug] = "create"]
        /\ reply' = [op |-> "cmd_new", outcome |-> "loaded"]
        /\ UNCHANGED evalVars

\* cmd_resume <slug>: load_course(slug) of a listed course
LoadCourse ==
    \E slug \in AppSlugs :
      \E loaded \in {TutorApp_load_course(courses, app, slug)} :
        /\ slug \in list_courses(courses)
        /\ app' = loaded.app
        /\ courses' = loaded.courses
        /\ reply' = [op |-> "load_course", outcome |-> "loaded"]
        /\ UNCHANGED <<evalVars, last_op>>

\* cmd_unit <n>
CmdUnit ==
    \E n \in 0..(MaxUnits + 1) :
        IF ~app.has_course \/ ~(1 <= n /\ n <= app.course.units)
        THEN /\ reply' = [op |-> "cmd_unit", outcome |-> "error"]
             /\ UNCHANGED <<evalVars, courses, last_op, app>>
        ELSE LET st == WithUnitProgress([app.state EXCEPT !.current_unit = n], n)
             IN  /\ app' = [app EXCEPT !.current_unit = n, !.state = st]
                 /\ courses' = save_state(courses, st)
                 /\ reply' = [op |-> "cmd_unit", outcome |-> "changed"]
                 /\ UNCHANGED <<evalVars, last_op>>

\* cmd_lab <slug>, with the cmd_edit it ends with
CmdLab ==
    \E desired \in AppLabs :
        IF ~app.has_course \/ app.current_unit = 0
        THEN /\ reply' = [op |-> "cmd_lab", outcome |-> "error"]
             /\ UNCHANGED <<evalVars, courses, last_op, app>>
        ELSE LET unit     == app.current_unit
                 progress == WithUnitProgress(app.state, unit)
                 st       == [progress EXCEPT !.current_lab = desired,
                                              !.unit_progress[unit].status = "practicing"]
             IN  /\ app' = [app EXCEPT !.state = st, !.lab_selected_in = unit]
                 /\ courses' = save_state(EnsureLab(courses, app.course.slug, unit, desired), st)
                 /\ reply' = [op |-> "cmd_lab", outcome |-> "selected"]
                 /\ UNCHANGED <<evalVars, last_op>>

\* cmd_submit
CmdSubmit ==
    IF \/ ~app.has_course \/ app.current_unit = 0
       \/ ~app.has_state \/ app.state.current_lab = NoneValue
    THEN /\ reply' = [op |-> "cmd_submit", outcome |-> "error"]
         /\ UNCHANGED <<evalVars, courses, last_op, app>>
    ELSE LET unit     == app.current_unit
             lab_slug == app.state.current_lab
             created  == <<unit, lab_slug>> \notin courses[app.course.slug].labs
         IN  \E result \in SubmitGrades(created) :
               LET lab_result == LabResult(lab_slug,
                                           IF result.passed THEN "passed" ELSE "failed",
                                           result.score, result.passed_tests,
                                           result.total_tests)
                   progress   == WithUnitProgress(app.state, unit)
                   results    == progress.unit_progress[unit].lab_results
                   st         == [progress EXCEPT !.unit_progress[unit].lab_results =
                                      [k \in (DOMAIN results) \cup {lab_slug} |->
                                          IF k = lab_slug THEN lab_result ELSE results[k]]]
               IN  /\ app' = [app EXCEPT !.state = st]
                   /\ courses' = save_state(
                          EnsureLab(courses, app.course.slug, unit, lab_slug), st)
                   /\ reply' = [op |-> "cmd_submit", outcome |-> "evaluated",
                                unit |-> unit, lab |-> lab_slug, created |-> created,
                                selected_in |-> app.lab_selected_in]
                   /\ UNCHANGED <<evalVars, last_op>>

\* cmd_delete <slug>, confirmed
CmdDelete ==
    \E slug \in AppSlugs :
        /\ courses' = delete_course(courses, slug)
        /\ last_op' = [last_op EXCEPT ![slug] = "delete"]
        /\ app' = IF app.has_course /\ app.course.slug = slug
                  THEN NoApp
                  ELSE IF slug \in StateSlugs THEN [app EXCEPT !.lab_selected_in = 0]
                  ELSE app
        /\ reply' = [op |-> "cmd_delete", outcome |-> "deleted"]
        /\ UNCHANGED evalVars

AppNext ==
    \/ CmdNew
    \/ LoadCourse
    \/ CmdUnit
    \/ CmdLab
    \/ CmdSubmit
    \/ CmdDelete

AppSpec == CoursesInit /\ [][AppNext]_vars

----------------------------------------------------------------------------
(* ExportImportManager.import_course (export_import/manager.py).           *)

\* The files of an exported course that the manifest lists with a checksum.
ArchiveFiles == {"course.yaml", "state.json"}

\* What the importer is given: a path that is no file or no ZIP, or a ZIP
\* made by export_course of a course with one unit, in which the manifest
\* may be absent or unreadable and each listed file may have been altered or
\* removed afterwards.
Archives ==
    {[kind |-> k, manifest |-> "ok", slug |-> "redes",
      files |-> [f \in ArchiveFiles |-> "intact"]] : k \in {"not_found", "not_zip"}}
    \cup {[kind |-> "zip", manifest |-> m, slug |-> "redes",
           files |-> [f \in ArchiveFiles |-> "intact"]] : m \in {"missing", "invalid"}}
    \cup {[kind |-> "zip", manifest |-> "ok", slug |-> "redes", files |-> files] :
            files \in [ArchiveFiles -> {"intact", "altered", "missing"}]}

\* shutil.copytree of the extracted course: the directory the archive gives.
Extracted(archive) ==
    CourseDir(TRUE,
              IF archive.files["course.yaml"] = "missing" THEN "" ELSE archive.slug,
              1,
              IF archive.files["state.json"] = "missing" THEN NoFile
              ELSE CourseState_save(InitialState(archive.slug)),
              {}, TRUE)

\* ExportImportManager.import_course(zip_path, force): [outcome, courses]
import_course(dirs, archive, force) ==
    LET rejected == [outcome |-> "ExportImportError", courses |-> dirs]
    IN  IF archive.kind # "zip" THEN rejected
        ELSE IF archive.manifest # "ok" THEN rejected
        ELSE IF dirs[archive.slug].exists /\ ~force THEN rejected
        ELSE IF \E f \in ArchiveFiles : archive.files[f] = "altered" THEN rejected
        ELSE [ outcome |-> "installed",
               courses |-> [delete_course(dirs, archive.slug) EXCEPT
                               ![archive.slug] = Extracted(archive)] ]

\* manager.import_course(zip_path, force); the reply keeps the courses
\* directory as it was before the call.
ImportCourse ==
    \E archive \in Archives, force \in BOOLEAN :
      \E done \in {import_course(courses, archive, force)} :
        /\ courses' = done.courses
        /\ reply' = [op |-> "import_course", archive |-> archive, force |-> force,
                     outcome |-> done.outcome, before |-> courses]
        /\ UNCHANGED <<evalVars, last_op, app>>

ImportNext ==
    \/ CreateCourse
    \/ DeleteCourse
    \/ ImportCourse

ImportSpec == CoursesInit /\ [][ImportNext]_vars

----------------------------------------------------------------------------
(* The properties of the evaluator's results.  ret holds the call that has *)
(* just returned; the lab's directories and grade.json are as that call    *)
(* left them.                                                              *)

\* C1: every GradeResult that PythonEvaluator.evaluate or
\* JavaScriptEvaluator.evaluate returns has passed exactly when its stored
\* (rounded) score is at least 70.0.
C1_PassedIffScoreAtLeast70 ==
    ret.op = "evaluate" => (ret.grade.passed <=> ret.grade.score >= PassMark)

\* C2: every GradeResult an evaluator returns, on any path (pre-flight
\* failure, timeout, pytest parse, unittest fallback, rubric, JavaScript),
\* has 0 <= score <= max_score.
C2_ScoreWithinMaxScore ==
    ret.op = "evaluate" =>
        /\ 0 <= ret.grade.score
        /\ ret.grade.score <= ret.grade.max_score

\* A Python evaluation whose tests all passed and whose files drew no
\* warning: the rubric gives the whole of max_score.
C2_FullScoreFromRubric ==
    /\ ret.op = "evaluate"
    /\ ret.evaluator = "python"
    /\ ret.runner = "completed"
    /\ ret.grade.total_tests > 0
    /\ ret.grade.score = ret.grade.max_score

\* C3: every GradeResult an evaluator returns has
\* 0 <= passed_tests <= total_tests, whatever the test runner printed.
C3_PassedTestsWithinTotal ==
    ret.op = "evaluate" =>
        /\ 0 <= ret.grade.passed_tests
        /\ ret.grade.passed_tests <= ret.grade.total_tests

\* C4: when the test subprocess exceeds the timeout, evaluate returns score 0,
\* passed false and exactly one error, which states the timeout, and no
\* fallback runner is started.
C4_TimeoutGivesZeroAndIsTerminal ==
    (ret.op = "evaluate" /\ ret.runner = "timeout") =>
        /\ ret.grade.score = 0
        /\ ~ret.grade.passed
        /\ Len(ret.grade.errors) = 1
        /\ ret.grade.errors[1].ref = ToString(Timeout)
        /\ ~ret.fallback

\* C5: on a lab whose grade_path is set, after evaluate returns, what
\* load_grade reads is the GradeResult that call returned, also when the call
\* ended in a configuration error, missing tests, an empty submission, a
\* missing toolchain or a timeout.
C5_ArtifactIsTheLastResult ==
    (ret.op = "evaluate" /\ lab.grade_path) =>
        load_grade(lab, grade_file) = Returned(ret.grade)

\* C6: for missing tests, a timeout and a crash of the runner, evaluate
\* returns (it does not raise) a GradeResult with score 0 and a non-empty
\* errors list.
C6_ExpectedFailuresGiveZeroWithErrors ==
    (/\ ret.op = "evaluate"
     /\ \/ ret.runner \in {"timeout", "oserror"}
        \/ ret.evaluator = "python" /\ {f \in tests : IsPyTest(f)} = {}
        \/ ret.evaluator = "javascript" /\ {f \in tests : IsJsTest(f)} = {})
    =>
        /\ ret.outcome = "result"
        /\ ret.grade.score = 0
        /\ ret.grade.errors # <<>>

\* C7: when the submission directory holds no file, evaluate returns score 0
\* and a non-empty errors list, and the call starts no subprocess and stages
\* no workspace.
C7_EmptySubmissionGivesZeroWithoutRun ==
    (ret.op = "evaluate" /\ submission = {}) =>
        /\ ret.grade.score = 0
        /\ ret.grade.errors # <<>>
        /\ ret.subprocess_runs = 0
        /\ ret.staged = 0

\* A Python evaluation of a configured lab that has tests and an empty
\* submission directory: the check of the submission is the one that fails.
C7_EmptySubmissionRejected ==
    /\ ret.op = "evaluate"
    /\ ret.evaluator = "python"
    /\ submission = {}
    /\ lab.submission_path
    /\ lab.tests_path
    /\ {f \in tests : IsPyTest(f)} # {}
    /\ ret.grade.errors = <<Msg("La carpeta de entrega está vacía", "")>>

\* C8: when the tests directory holds no file that matches the language's
\* test pattern, evaluate returns score 0 with the 'no tests found' message
\* among its errors and starts no subprocess, for both evaluators and
\* whatever the submission directory holds.
C8_NoTestsGivesNoTestsMessage ==
    (/\ ret.op = "evaluate"
     /\ lab.submission_path
     /\ lab.tests_path
     /\ \/ ret.evaluator = "python" /\ {f \in tests : IsPyTest(f)} = {}
        \/ ret.evaluator = "javascript" /\ {f \in tests : IsJsTest(f)} = {})
    =>
        /\ ret.grade.score = 0
        /\ \E i \in 1..Len(ret.grade.errors) :
              ret.grade.errors[i].text \in
                  {"No se encontraron archivos de test",
                   "No se encontraron archivos de test .js"}
        /\ ret.subprocess_runs = 0

C10_UnreadableArtifactGivesNone ==
    (/\ ret.op = "load_grade"
     /\ lab.grade_path
     /\ \/ grade_file.kind \in {"missing", "malformed"}
        \/ grade_file.kind = "object" /\ "score" \notin DOMAIN grade_file.obj)
    =>
        ret.outcome = "none"

\* C11 as the specification states it: for every Python evaluation that
\* reaches the rubric, score = max(0, test_score + 30 - quality_penalty)
\* exactly, with test_score = passed_tests / total_tests * 70 (0 when
\* total_tests = 0) and quality_penalty = min(2 * warnings, 20); the rubric map
\* records tests, base_quality = 30, penalty = -quality_penalty, final = score.
C11_RubricScoreExact ==
    (ret.op = "evaluate" /\ ret.evaluator = "python" /\ ret.subprocess_runs = 1) =>
        LET t       == ret.grade.total_tests
            den     == IF t > 0 THEN t ELSE 1
            tests70 == IF t > 0 THEN 70 * ret.grade.passed_tests ELSE 0
            penalty == IF 2 * Len(ret.grade.warnings) < 20
                       THEN 2 * Len(ret.grade.warnings) ELSE 20
            final   == IF tests70 + (30 - penalty) * den > 0
                       THEN tests70 + (30 - penalty) * den ELSE 0
        IN  /\ ret.grade.score * den = 10 * final
            /\ "tests" \in DOMAIN ret.grade.rubric
            /\ ret.grade.rubric.base_quality = 300
            /\ ret.grade.rubric.penalty = -(10 * penalty)
            /\ ret.grade.rubric.final = ret.grade.score

\* C11, amended: score is max(0, test_score + 30 - quality_penalty) rounded to
\* one decimal (it is within 0.05 of it and a whole number of tenths), the
\* rubric's tests entry is test_score rounded to one decimal, zero passing
\* tests with no warnings scores 30, and the rubric map records
\* base_quality = 30, penalty = -quality_penalty and final = score.
C11_RubricScoreRounded ==
    (ret.op = "evaluate" /\ ret.evaluator = "python" /\ ret.subprocess_runs = 1) =>
        LET t       == ret.grade.total_tests
            den     == IF t > 0 THEN t ELSE 1
            tests70 == IF t > 0 THEN 70 * ret.grade.passed_tests ELSE 0
            penalty == IF 2 * Len(ret.grade.warnings) < 20
                       THEN 2 * Len(ret.grade.warnings) ELSE 20
            final   == IF tests70 + (30 - penalty) * den > 0
                       THEN tests70 + (30 - penalty) * den ELSE 0
            Within(tenths, num) ==
                /\ 2 * (tenths * den - 10 * num) <= den
                /\ 2 * (10 * num - tenths * den) <= den
        IN  /\ Within(ret.grade.score, final)
            /\ Within(ret.grade.rubric.tests, tests70)
            /\ (ret.grade.passed_tests = 0 /\ ret.grade.warnings = <<>>)
                   => ret.grade.score = 300
            /\ ret.grade.rubric.base_quality = 300
            /\ ret.grade.rubric.penalty = -(10 * penalty)
            /\ ret.grade.rubric.final = ret.grade.score

\* A Python evaluation whose rubric score is no whole number of tenths before
\* it is rounded, of a submission that draws more than ten warnings.
C11_RoundedAndCapped ==
    /\ ret.op = "evaluate"
    /\ ret.evaluator = "python"
    /\ ret.subprocess_runs = 1
    /\ ret.grade.total_tests > 0
    /\ Len(ret.grade.warnings) > 10
    /\ (10 * 70 * ret.grade.passed_tests) % ret.grade.total_tests # 0


\* C12: when neither the structured report nor the textual summary yields a
\* test count, the returned GradeResult has total_tests = 0 and final score 0.
C12_NoCountGivesZeroScore ==
    (/\ ret.op = "evaluate"
     /\ ret.evaluator = "python"
     /\ ret.runner \in {"completed", "no_pytest"}
     /\ ~ret.fallback
     /\ (ret.input.stdout.json.kind = "report" => ret.input.stdout.json.tests = <<>>)
     /\ ~ret.input.stdout.summary.has_passed
     /\ ~ret.input.stdout.summary.has_failed)
    =>
        /\ ret.grade.total_tests = 0
        /\ ret.grade.score = 0

\* C13: when no structured report parses and the summary on stdout reports P
\* passed and F failed tests (P = 0 when it reports only failures), the parser
\* yields passed_tests = P and total_tests = P + F.
C13_SummaryCountsPassedAndFailed ==
    (/\ ret.op = "evaluate"
     /\ ret.evaluator = "python"
     /\ ret.runner = "completed"
     /\ ~ret.fallback
     /\ (ret.input.stdout.json.kind = "report" => ret.input.stdout.json.tests = <<>>)
     /\ (ret.input.stdout.summary.has_passed \/ ret.input.stdout.summary.has_failed))
    =>
        /\ ret.grade.passed_tests = ret.input.stdout.summary.passed
        /\ ret.grade.total_tests =
               ret.input.stdout.summary.passed + ret.input.stdout.summary.failed

C16_AtMostTenErrors ==
    ret.op = "evaluate" => Len(ret.grade.errors) <= 10

\* A structured report with more than ten failed tests has been graded: every
\* test is in test_details, ten of them are in errors.
C16_LongReportCut ==
    /\ ret.op = "evaluate"
    /\ ret.evaluator = "python"
    /\ Len(ret.grade.test_details) > 10
    /\ ret.grade.passed_tests = 0
    /\ Len(ret.grade.errors) = 10

\* C20: when the primary runner is not installed or errors unexpectedly, the
\* evaluation runs the fallback runner before it returns, and an error entry
\* is surfaced only when the fallback ran (and failed).
C20_FallbackWhenRunnerUnavailable ==
    (/\ ret.op = "evaluate"
     /\ ret.evaluator = "python"
     /\ ret.subprocess_runs = 1)
    =>
        /\ ret.runner \in {"no_pytest", "oserror"} => ret.fallback
        /\ (ret.runner \in {"no_pytest", "oserror"} /\ ret.grade.errors # <<>>)
               => ret.fallback


\* C15: evaluate() run twice in a row on the same unchanged lab, with the same
\* outcome of the test process, returns the same passed_tests, total_tests and
\* score: nothing the first run leaves behind (grade artifact, workspace,
\* warnings, sys.path entries, imported modules) changes the second result.
C15_SecondRunSameResult ==
    \A p, q \in Evals :
        (/\ evals[p].pc = "done"
         /\ evals[q].pc = "done"
         /\ p \in evals[q].after
         /\ evals[q].lab = evals[p].lab
         /\ evals[q].evaluator = evals[p].evaluator
         /\ evals[q].input = evals[p].input)
        =>
            /\ evals[q].grade.passed_tests = evals[p].grade.passed_tests
            /\ evals[q].grade.total_tests = evals[p].grade.total_tests
            /\ evals[q].grade.score = evals[p].grade.score

\* Two Python evaluations of one lab, the second begun after the first was
\* done and had written grade.json, both through the fallback runner, which
\* failed in two different ways.
C15_SecondRunAfterFallback ==
    \E p, q \in Evals :
        /\ evals[p].pc = "done"
        /\ evals[q].pc = "done"
        /\ p \in evals[q].after
        /\ evals[q].lab = evals[p].lab
        /\ evals[p].evaluator = "python"
        /\ evals[q].evaluator = "python"
        /\ evals[q].input = evals[p].input
        /\ evals[p].fallback
        /\ evals[q].fallback
        /\ evals[q].grade.errors # evals[p].grade.errors
        /\ grades[evals[p].lab].kind = "object"

\* C17: when an evaluation has left _run_tests, by a return, after a timeout,
\* after the fallback runner, or by an exception, the workspace it created no
\* longer exists.
C17_WorkspaceRemoved ==
    \A p \in Evals :
        evals[p].pc \in {"finish", "done", "raised"} => p \notin workdirs

\* One evaluation ended by an exception after it had staged its workspace,
\* the other returned after a timeout of pytest; no workspace exists.
C17_RemovedAfterExceptionAndTimeout ==
    \E p, q \in Evals :
        /\ evals[p].pc = "raised"
        /\ evals[p].staged
        /\ evals[q].pc = "done"
        /\ evals[q].staged
        /\ evals[q].input.kind = "timeout"
        /\ workdirs = {}

\* C18: every test-runner process an evaluation starts, in both evaluators,
\* runs in the evaluation's temporary workspace on the copied tests, never in
\* the lab's own directory or on the lab's own tests.
C18_RunnersUseTheWorkspace ==
    \A p \in Evals :
        evals[p].process # NoProcess =>
            /\ evals[p].staged
            /\ evals[p].process.cwd = "workspace"
            /\ evals[p].process.tests = "workspace/tests"

\* Two evaluations overlap when each began before the other had ended.
Overlapping(p, q) ==
    /\ p # q
    /\ evals[p].pc # "idle"
    /\ evals[q].pc # "idle"
    /\ p \notin evals[q].after
    /\ q \notin evals[p].after

\* C19: two evaluations whose steps interleave share no mutable state: no
\* object (file, directory, sys.path) is written by both, and an evaluation
\* running the fallback runner finds at the head of sys.path the two entries
\* it inserted itself, so that the entries it removes are its own.
C19_NoSharedMutableState ==
    /\ \A o \in Objects : \A p, q \in writers[o] : ~Overlapping(p, q)
    /\ \A p \in Evals :
           evals[p].pc \in {"unittest", "pop_paths"} =>
               /\ Len(sys_path) >= 2
               /\ sys_path[1].of = p
               /\ sys_path[2].of = p

\* C21: when the runner toolchain is missing (node not found, the Python
\* interpreter not startable, pytest not installed), evaluate() of either
\* evaluator returns score 0 with an error entry and runs no second runner.
C21_MissingToolchainGivesZero ==
    (/\ ret.op = "evaluate"
     /\ ret.runner \in {"not_found", "oserror", "no_pytest"})
    =>
        /\ ret.grade.score = 0
        /\ ret.grade.errors # <<>>
        /\ ~ret.fallback

\* C22: the evaluator that is run for a lab is the one for the language the
\* lab declares (Lab.language always holds a language).
C22_DeclaredLanguageDecides ==
    ret.op = "evaluate" => ret.evaluator = lab.language

\* C25: the evaluator is chosen on test-file patterns: Python when the tests
\* directory holds a test*.py file, otherwise JavaScript when it holds a
\* test*.js file, otherwise Python; helper .py files that are not tests do
\* not make a directory with test*.js a Python lab.
C25_DetectionByTestPatterns ==
    ret.op = "evaluate" =>
        ret.evaluator =
            IF lab.tests_path /\ \E f \in tests : IsPyTest(f) THEN "python"
            ELSE IF lab.tests_path /\ \E f \in tests : IsJsTest(f) THEN "javascript"
            ELSE "python"

\* C26: when pytest completed with a structured report that parses and lists
\* n tests, total_tests = n, passed_tests = the number of tests whose outcome
\* is exactly "passed", test_details has one entry per test and errors has
\* min(n - passed_tests, 10) entries.
C26_ReportCountsEveryTest ==
    (/\ ret.op = "evaluate"
     /\ ret.evaluator = "python"
     /\ ret.runner = "completed"
     /\ ret.input.stdout.json.kind = "report")
    =>
        LET report == ret.input.stdout.json.tests
            n      == Len(report)
            p      == Cardinality({i \in 1..n : report[i].outcome = "passed"})
        IN  /\ ret.grade.total_tests = n
            /\ ret.grade.passed_tests = p
            /\ Len(ret.grade.test_details) = n
            /\ Len(ret.grade.errors) = Min(n - p, ErrorCap)

\* C27: when pytest completed with a malformed structured report (invalid
\* JSON, or JSON of an unexpected shape), the result is the one of the
\* textual summary of the same output: no other runner is run, the caller
\* gets a result, and no test of the malformed report is counted.
C27_MalformedReportDegradesToSummary ==
    (/\ ret.op = "evaluate"
     /\ ret.evaluator = "python"
     /\ ret.runner = "completed"
     /\ ret.input.stdout.json.kind \in {"malformed", "bad_shape"})
    =>
        /\ ret.outcome = "result"
        /\ ~ret.fallback
        /\ ret.grade.passed_tests = SummaryCounts(ret.input.stdout.summary).passed_tests
        /\ ret.grade.total_tests = SummaryCounts(ret.input.stdout.summary).total_tests
        /\ ret.grade.test_details = <<>>

----------------------------------------------------------------------------
(* The properties of the courses directory and of the saved state.         *)

\* C23: after any sequence of create_course and delete_course,
\* course_exists(slug) is true exactly when the last of these calls for the
\* slug was create_course, and list_courses returns exactly the slugs for
\* which course_exists is true.
C23_ExistsIffCreatedAndListed ==
    /\ reply.op = "course_exists" =>
           (reply.result <=> last_op[reply.slug] = "create")
    /\ reply.op = "list_courses" =>
           reply.result = {p \in CoursePaths : course_exists(courses, p)}

\* C24: load_state(s.course_slug) right after save_state(s) returns a state,
\* not None, equal to s in course_slug, in current_unit and in the progress
\* of every unit, with the integer unit numbers as keys and every
\* LabResult's lab_slug and score.
C24_LoadAfterSaveReturnsTheState ==
    (reply.op = "load_state" /\ reply.after_save) =>
        LET s      == reply.saved
            loaded == reply.result.state
        IN  /\ reply.result.found
            /\ loaded.course_slug = s.course_slug
            /\ loaded.current_unit = s.current_unit
            /\ DOMAIN loaded.unit_progress = DOMAIN s.unit_progress
            /\ \A n \in DOMAIN s.unit_progress :
                   /\ loaded.unit_progress[n].unit_number = s.unit_progress[n].unit_number
                   /\ loaded.unit_progress[n].status = s.unit_progress[n].status
                   /\ DOMAIN loaded.unit_progress[n].lab_results
                          = DOMAIN s.unit_progress[n].lab_results
                   /\ \A k \in DOMAIN s.unit_progress[n].lab_results :
                          /\ loaded.unit_progress[n].lab_results[k].lab_slug
                                 = s.unit_progress[n].lab_results[k].lab_slug
                          /\ loaded.unit_progress[n].lab_results[k].score
                                 = s.unit_progress[n].lab_results[k].score

\* A state with current_unit 2 and a lab result of 85.0 under unit 2 was
\* saved and then loaded.
C24_LoadedStateWithLabResult ==
    /\ reply.op = "load_state"
    /\ reply.after_save
    /\ reply.saved.current_unit = 2
    /\ 2 \in DOMAIN reply.saved.unit_progress
    /\ "test-lab" \in DOMAIN reply.saved.unit_progress[2].lab_results
    /\ reply.result.found
    /\ reply.result.state.unit_progress[2].lab_results["test-lab"].score = 850

----------------------------------------------------------------------------
(* The properties of the application.                                      *)

\* C28: in TutorApp, current_state is set whenever current_course is set,
\* and whenever current_unit is set it is the unit at position
\* current_state.current_unit of the loaded course, so that cmd_submit
\* evaluates the labs of the unit the persisted state records.
C28_CurrentUnitIsTheStatesUnit ==
    /\ app.has_course => app.has_state
    /\ app.current_unit # 0 =>
           /\ app.has_state
           /\ app.current_unit = app.state.current_unit
    /\ (reply.op = "cmd_submit" /\ reply.outcome = "evaluated") =>
           reply.unit = app.state.current_unit

\* C29: cmd_submit evaluates, creates and records only a lab that cmd_lab
\* selected while the unit that is current now was current.
C29_SubmitOnlyTheLabOfTheUnit ==
    (reply.op = "cmd_submit" /\ reply.outcome = "evaluated") =>
        /\ reply.selected_in = reply.unit
        /\ ~reply.created

\* C30: import_course either installs the archived course or raises
\* ExportImportError and leaves the courses directory as it was: without
\* force an existing course of the slug is not changed, and an archive in
\* which a file listed in the manifest's checksums is altered or missing is
\* rejected with nothing removed.
C30_ImportInstallsOrLeavesUnchanged ==
    reply.op = "import_course" =>
        /\ reply.outcome \in {"installed", "ExportImportError"}
        /\ reply.outcome = "ExportImportError" => courses = reply.before
        /\ (~reply.force /\ reply.before[reply.archive.slug].exists) =>
               courses = reply.before
        /\ (\E f \in ArchiveFiles : reply.archive.files[f] \in {"altered", "missing"}) =>
               /\ reply.outcome = "ExportImportError"
               /\ courses = reply.before

====
